---- MODULE Spec2Model ----
(***************************************************************************)
(* StarBox, starbox/celestial.py: the hierarchy of celestial bodies.       *)
(*                                                                         *)
(* The state is the heap of constructed objects.  Every constructor stores *)
(* its parent, sets a default bodyRank and calls parent.subAssign(self)    *)
(* inside "try ... except AttributeError: pass".  subAssign is dispatched  *)
(* on the class of the parent and may forward the child to a System.       *)
(*                                                                         *)
(* Classes.  cls is the class that defines the behaviour of an object:     *)
(* "System", "Star", "Planet", "Belt" or "Minor".  BlackHole (l.207-208)   *)
(* inherits everything from Star, GiantPlanet and DwarfPlanet (l.138-144)  *)
(* inherit everything from Planet; they override only bodySubtype and      *)
(* massUnit, which neither subAssign nor system() reads, and they keep the *)
(* bodyType of their base class.  A Star stands for Star/BlackHole and a   *)
(* Planet for Planet/GiantPlanet/DwarfPlanet.                              *)
(***************************************************************************)
EXTENDS Integers, Sequences, FiniteSets

\* Largest number of objects constructed in one run.
MaxNodes == 4
\* Python's None, as an object reference.
None == 0
\* The outcome of reading a class attribute the object does not have.
NoAttr == "AttributeError"

\* Default ranks assigned by the constructors.
SystemRank == 2
StarRank == 2
PlanetRank == 3
BeltRank == 3
MinorRank == 4

\* The rank arguments tried for System(rank=) and Belt(rank=): below, equal
\* to and above the default rank of a Star; the last is also the default
\* rank of a Planet and of a Belt.
RankArgs == {StarRank - 1, StarRank, StarRank + 1}

VARIABLES
    objs,    \* the heap: objs[i] is the i-th constructed object
    raised   \* TRUE iff the last constructor call ended in an uncaught AttributeError

vars == <<objs, raised>>

Nodes == 1..Len(objs)

Range(s) == {s[k] : k \in 1..Len(s)}

\* A freshly initialised object, before parent.subAssign(self) is tried.
\* orbitals exists for Star, Planet and Belt; heads/bodies for System; the
\* fields a class does not have stay empty and are never read.
\* bodySubtype is the class attribute, except for a Belt, whose constructor
\* sets it last (Belt has no class attribute bodySubtype).
NewObj(c, p, r) ==
    [cls |-> c, parent |-> p, bodyRank |-> r,
     orbitals |-> <<>>, heads |-> <<>>, bodies |-> <<>>,
     bodySubtype |-> IF c \in {"Belt", "Minor"} THEN NoAttr ELSE c]

\* obj.bodyType: a class attribute of System, Star, Planet and Belt; Minor
\* defines none, so reading it raises AttributeError.
bodyType(o, i) ==
    IF o[i].cls = "Minor" THEN NoAttr ELSE o[i].cls

\* system() asking only the immediate parent, as the forwarding test of
\* Star.subAssign does: the fault the amended C4 rules out.
systemOneLevel(o, i) ==
    IF i = None THEN None
    ELSE IF o[i].cls = "System" THEN i
    ELSE IF o[i].parent # None /\ o[o[i].parent].cls = "System" THEN o[i].parent
    ELSE None

\* x.system(): a System returns itself; every other class returns
\* self.parent.system(), and None when that raises AttributeError, which
\* happens exactly when the chain ends in parent = None.
RECURSIVE system(_, _)
system(o, i) ==
    IF i = None THEN None
    ELSE IF o[i].cls = "System" THEN i
    ELSE system(o, o[i].parent)

\* The first three statements of Star/Belt/Body.subAssign:
\*   self.orbitals.append(childNew); childNew.parent = self;
\*   childNew.bodyRank = self.bodyRank + 1
\* None of them can raise for these classes; what they did stays done when a
\* later statement of the try block raises.
Attach(o, s, c) ==
    [o EXCEPT ![s].orbitals = Append(@, c),
              ![c].parent = s,
              ![c].bodyRank = o[s].bodyRank + 1]

\* System.subAssign with the two branches swapped: the fault C1 rules out.
SystemSubAssignSwapped(o, s, c) ==
    IF o[c].bodyRank > o[s].bodyRank
    THEN [o EXCEPT ![s].heads = Append(@, c)]
    ELSE IF o[c].bodyRank = o[s].bodyRank
    THEN [o EXCEPT ![s].bodies = Append(@, c)]
    ELSE o

\* System.subAssign with ">=" and a second "if" in place of ">" and "elif":
\* the fault C10 rules out.
SystemSubAssignBoth(o, s, c) ==
    LET o1 == IF o[c].bodyRank >= o[s].bodyRank
              THEN [o EXCEPT ![s].bodies = Append(@, c)] ELSE o
    IN  IF o[c].bodyRank = o[s].bodyRank
        THEN [o1 EXCEPT ![s].heads = Append(@, c)] ELSE o1

\* System.subAssign: a child of greater rank goes to bodies, one of equal
\* rank to heads, one of smaller rank nowhere.  Neither the child's parent
\* nor its rank is touched.
SystemSubAssign(o, s, c) ==
    IF o[c].bodyRank > o[s].bodyRank
    THEN [o EXCEPT ![s].bodies = Append(@, c)]
    ELSE IF o[c].bodyRank = o[s].bodyRank
    THEN [o EXCEPT ![s].heads = Append(@, c)]
    ELSE o

\* The forwarding test of Star.subAssign and Belt.subAssign,
\*   if self.parent.bodyType == "System": self.parent.subAssign(childNew)
\* self.parent = None and a Minor parent (no bodyType) raise AttributeError,
\* which the except clause absorbs.
ForwardToParent(o, s, c) ==
    IF o[s].parent = None THEN o
    ELSE IF bodyType(o, o[s].parent) = NoAttr THEN o
    ELSE IF bodyType(o, o[s].parent) = "System"
    THEN SystemSubAssign(o, o[s].parent, c)
    ELSE o

\* Star.subAssign without the rank assignment: the fault C2 rules out.
StarSubAssignNoRank(o, s, c) ==
    ForwardToParent([o EXCEPT ![s].orbitals = Append(@, c), ![c].parent = s], s, c)

\* Star.subAssign without the forwarding to the System: the fault C3 rules
\* out.
StarSubAssignNoForward(o, s, c) ==
    Attach(o, s, c)

\* Star.subAssign
StarSubAssign(o, s, c) ==
    ForwardToParent(Attach(o, s, c), s, c)

\* Belt.subAssign forwarding through system(), as Body.subAssign does: the
\* behaviour the amended C6 rules out.
BeltSubAssignViaSystem(o, s, c) ==
    LET o1 == Attach(o, s, c)
    IN  IF system(o1, s) # None THEN SystemSubAssign(o1, system(o1, s), c) ELSE o1

\* Belt.subAssign
BeltSubAssign(o, s, c) ==
    ForwardToParent(Attach(o, s, c), s, c)

\* Body.subAssign (Planet, GiantPlanet, DwarfPlanet): forwards to the System
\* that self.system() finds, whatever the depth.
BodySubAssign(o, s, c) ==
    LET o1 == Attach(o, s, c)
    IN  IF system(o1, s) # None THEN SystemSubAssign(o1, system(o1, s), c) ELSE o1

\* Minor.subAssign working as Body.subAssign does: the behaviour C9 rules
\* out.
MinorSubAssignAsBody(o, s, c) ==
    BodySubAssign(o, s, c)

\* Minor.subAssign: the first statement, self.append(childNew), raises
\* AttributeError (Minor has no append), so nothing is done.
MinorSubAssign(o, s, c) ==
    o

\* p.subAssign(c), dispatched on the class of p.
subAssign(o, p, c) ==
    CASE o[p].cls = "System" -> SystemSubAssign(o, p, c)
      [] o[p].cls = "Star"   -> StarSubAssign(o, p, c)
      [] o[p].cls = "Planet" -> BodySubAssign(o, p, c)
      [] o[p].cls = "Belt"   -> BeltSubAssign(o, p, c)
      [] o[p].cls = "Minor"  -> MinorSubAssign(o, p, c)

\* The try block every constructor ends with (Belt: almost ends with):
\*   try: self.parent.subAssign(self)  except AttributeError: pass
\* With parent = None the attribute lookup raises and nothing is done.
TryAssign(o, c) ==
    IF o[c].parent = None THEN o ELSE subAssign(o, o[c].parent, c)

\* The tail of Belt.__init__, outside any try block: it reads
\* self.parent.bodyType, which raises AttributeError when the parent is None
\* or a Minor.
BeltTailRaises(o, c) ==
    \/ o[c].parent = None
    \/ bodyType(o, o[c].parent) = NoAttr

BeltSubtype(o, c) ==
    IF bodyType(o, o[c].parent) = "Star" THEN "Belt"
    ELSE IF bodyType(o, o[c].parent) = "Planet" THEN "Ring"
    ELSE "Cloud"

\* A constructor call cls(name, parent = p), with r the rank the constructor
\* assigns before it tries parent.subAssign(self).  When the constructor
\* raises, the caller gets no reference to the object: it is dropped from
\* the heap, and whatever subAssign did to the other objects stays.
Construct(c, p, r) ==
    /\ Len(objs) < MaxNodes
    /\ LET n  == Len(objs) + 1
           o1 == TryAssign(Append(objs, NewObj(c, p, r)), n)
           fails == c = "Belt" /\ BeltTailRaises(o1, n)
           o2 == IF c = "Belt" /\ ~fails
                 THEN [o1 EXCEPT ![n].bodySubtype = BeltSubtype(o1, n)]
                 ELSE o1
       IN  /\ objs' = IF fails THEN SubSeq(o2, 1, n - 1) ELSE o2
           /\ raised' = fails

Parents == Nodes \cup {None}

Classes == {"System", "Star", "Planet", "Belt", "Minor"}

\* The ranks a constructor of class c may assign before parent.subAssign.
RanksOf(c) ==
    CASE c = "System" -> RankArgs
      [] c = "Star"   -> {StarRank}
      [] c = "Planet" -> {PlanetRank}
      [] c = "Belt"   -> RankArgs
      [] c = "Minor"  -> {MinorRank}

NewSystem == \E p \in Parents, r \in RankArgs : Construct("System", p, r)
NewStar   == \E p \in Parents : Construct("Star", p, StarRank)
NewPlanet == \E p \in Parents : Construct("Planet", p, PlanetRank)
NewBelt   == \E p \in Parents, r \in RankArgs : Construct("Belt", p, r)
NewMinor  == \E p \in Parents : Construct("Minor", p, MinorRank)

Init ==
    /\ objs = <<>>
    /\ raised = FALSE

Next == NewSystem \/ NewStar \/ NewPlanet \/ NewBelt \/ NewMinor

Spec == Init /\ [][Next]_vars

\* The same constructors, called with the default rank arguments only.
DefaultSystem == \E p \in Parents : Construct("System", p, SystemRank)
DefaultBelt   == \E p \in Parents : Construct("Belt", p, BeltRank)

NextDefault == DefaultSystem \/ NewStar \/ NewPlanet \/ DefaultBelt \/ NewMinor

SpecDefault == Init /\ [][NextDefault]_vars

-----------------------------------------------------------------------------
(* Vocabulary of the properties *)

Systems == {s \in Nodes : objs[s].cls = "System"}

Heads(s) == Range(objs[s].heads)
Bodies(s) == Range(objs[s].bodies)
Listed(s) == Heads(s) \cup Bodies(s)

\* No element occurs twice in the sequence q.
NoDuplicates(q) == \A j, k \in 1..Len(q) : q[j] = q[k] => j = k

\* i and the objects above it along the parent references.
RECURSIVE Chain(_)
Chain(i) == IF i = None THEN {} ELSE {i} \cup Chain(objs[i].parent)

\* A parent is always constructed before its child, so along a chain the
\* object numbers decrease: the nearest System is the youngest one on the
\* chain and the root System the oldest.
SystemsOn(i) == Chain(i) \cap Systems
Youngest(S) == CHOOSE x \in S : \A y \in S : y <= x
Oldest(S) == CHOOSE x \in S : \A y \in S : x <= y
NearestSystem(i) == IF SystemsOn(i) = {} THEN None ELSE Youngest(SystemsOn(i))
RootSystem(i) == IF SystemsOn(i) = {} THEN None ELSE Oldest(SystemsOn(i))

\* The objects constructed with parent argument p that is of class c.
ChildrenOfClass(c) ==
    {b \in Nodes : objs[b].parent # None /\ objs[objs[b].parent].cls = c}

-----------------------------------------------------------------------------
\* C1: in every System, every head has the rank of the System, every body has
\* a strictly greater rank, and no object is both a head and a body of it.
C1_HeadsAndBodiesByRank ==
    \A s \in Systems :
        /\ \A b \in Heads(s) : objs[b].bodyRank = objs[s].bodyRank
        /\ \A b \in Bodies(s) : objs[b].bodyRank > objs[s].bodyRank
        /\ Heads(s) \cap Bodies(s) = {}

\* A System that has a head and a body, and a System of non-default rank
\* with a head.
C1_Witness ==
    /\ \E s \in Systems : Heads(s) # {} /\ Bodies(s) # {}
    /\ \E s \in Systems : objs[s].bodyRank # SystemRank /\ Heads(s) # {}

-----------------------------------------------------------------------------
\* C2, state part: a body whose parent is a Star, a Belt or a Planet has the
\* rank of its parent plus one.
C2_RankIsParentPlusOne ==
    \A b \in ChildrenOfClass("Star") \cup ChildrenOfClass("Belt")
             \cup ChildrenOfClass("Planet") :
        objs[b].bodyRank = objs[objs[b].parent].bodyRank + 1

\* C2: a body constructed under a Star, a Belt or a Planet has the rank of
\* its parent plus one when its construction finishes and ever after, and no
\* later construction changes the rank of an object that exists.
C2_ChildRankFixed ==
    /\ []C2_RankIsParentPlusOne
    /\ [][\A i \in Nodes : objs'[i].bodyRank = objs[i].bodyRank]_vars

\* A Minor under a Star, a Star under a Belt or a Star under a Planet, each
\* with a rank other than the default of its class, that is not the youngest
\* object: its rank outlived a later construction.
C2_Witness ==
    \E b \in Nodes :
        /\ b < Len(objs)
        /\ \/ b \in ChildrenOfClass("Star") /\ objs[b].cls = "Minor"
                                            /\ objs[b].bodyRank # MinorRank
           \/ b \in ChildrenOfClass("Belt") /\ objs[b].cls = "Star"
                                            /\ objs[b].bodyRank # StarRank
           \/ b \in ChildrenOfClass("Planet") /\ objs[b].cls = "Star"
                                              /\ objs[b].bodyRank # StarRank

-----------------------------------------------------------------------------
\* C3 as claimed: a body under a Star whose parent is a System is in the
\* orbitals of the Star and in the bodies of the System, never in its heads,
\* whatever the rank of the System.
C3_DualMembershipAnyRank ==
    \A b \in ChildrenOfClass("Star") :
        LET p == objs[b].parent
            s == objs[p].parent
        IN  (s # None /\ objs[s].cls = "System") =>
                /\ b \in Range(objs[p].orbitals)
                /\ b \in Bodies(s)
                /\ b \notin Heads(s)

\* C3 amended: the same for a System whose rank is at most the rank of the
\* Star; under a System one rank above the Star the body is a head of the
\* System, and under a System of still greater rank it is not listed at all.
C3_DualMembership ==
    \A b \in ChildrenOfClass("Star") :
        LET p == objs[b].parent
            s == objs[p].parent
        IN  (s # None /\ objs[s].cls = "System") =>
                /\ b \in Range(objs[p].orbitals)
                /\ objs[s].bodyRank <= objs[p].bodyRank =>
                       b \in Bodies(s) /\ b \notin Heads(s)
                /\ objs[s].bodyRank = objs[p].bodyRank + 1 =>
                       b \in Heads(s) /\ b \notin Bodies(s)
                /\ objs[s].bodyRank > objs[p].bodyRank + 1 =>
                       b \notin Listed(s)

\* A body under a Star that is listed in a System which was itself
\* constructed under another object: the body is in the orbitals of the Star
\* and in the bodies of the System.
C3_Witness ==
    \E b \in ChildrenOfClass("Star") :
        LET p == objs[b].parent
            s == objs[p].parent
        IN  /\ s # None
            /\ objs[s].cls = "System"
            /\ objs[s].parent # None
            /\ p \in Listed(s)
            /\ b \in Range(objs[p].orbitals)
            /\ b \in Bodies(s)

-----------------------------------------------------------------------------
\* C4 as claimed: system() of a System is that System; system() of an object
\* with a System above it is the root System of its chain; system() is None
\* exactly when there is no System on the chain.
C4_SystemIsRoot ==
    \A i \in Nodes :
        /\ objs[i].cls = "System" => system(objs, i) = i
        /\ SystemsOn(objs[i].parent) # {} => system(objs, i) = RootSystem(i)
        /\ system(objs, i) = None <=> SystemsOn(i) = {}

\* C4 amended: system() is the nearest System on the chain that starts at
\* the object itself, and None exactly when the chain holds no System.
C4_SystemIsNearest ==
    \A i \in Nodes : system(objs, i) = NearestSystem(i)

\* An object two levels below a System that is nested in another System.
C4_Witness ==
    \E i \in Nodes :
        /\ objs[i].cls # "System"
        /\ objs[i].parent # None
        /\ objs[objs[i].parent].cls # "System"
        /\ NearestSystem(i) # None
        /\ RootSystem(i) # NearestSystem(i)

-----------------------------------------------------------------------------
\* C5: a body constructed under a Belt or a Planet whose system() is a System
\* S is listed in S whenever its rank is at least the rank of S.
C5_ForwardedThroughChain ==
    \A b \in ChildrenOfClass("Belt") \cup ChildrenOfClass("Planet") :
        LET s == system(objs, objs[b].parent)
        IN  (s # None /\ objs[b].bodyRank >= objs[s].bodyRank) => b \in Listed(s)

-----------------------------------------------------------------------------
\* C6 as claimed: a Minor constructed under a Belt is listed in no System.
C6_MinorNeverListed ==
    \A m \in ChildrenOfClass("Belt") :
        objs[m].cls = "Minor" => \A s \in Systems : m \notin Listed(s)

\* C6 amended, state part: a Minor constructed under a Belt is listed in a
\* System S exactly when S is the parent of the Belt and the rank of the
\* Minor is at least the rank of S.
C6_ListedIffBeltInSystem ==
    \A m \in ChildrenOfClass("Belt") :
        objs[m].cls = "Minor" =>
            \A s \in Systems :
                m \in Listed(s) <=>
                    /\ s = objs[objs[m].parent].parent
                    /\ objs[m].bodyRank >= objs[s].bodyRank

\* C6 amended: constructing a Minor under a Belt succeeds, and in every later
\* state the Minor is listed in a System S exactly when S is the parent of
\* the Belt and the rank of the Minor is at least the rank of S.
C6_MinorListedByBeltParent ==
    /\ []C6_ListedIffBeltInSystem
    /\ [][\A p \in Nodes :
             (objs[p].cls = "Belt" /\ Construct("Minor", p, MinorRank)) =>
                 /\ ~raised'
                 /\ Len(objs') = Len(objs) + 1
         ]_vars

\* A Minor of a Belt that is listed in the bodies of the System the Belt
\* was constructed in.
C6_Witness ==
    \E m \in ChildrenOfClass("Belt") :
        /\ objs[m].cls = "Minor"
        /\ m \in Bodies(objs[objs[m].parent].parent)

-----------------------------------------------------------------------------
\* C7: no constructor call ends in an error.
C7_ConstructionNeverRaises ==
    ~raised

-----------------------------------------------------------------------------
\* C8: with the default rank arguments every rank lies in 2..5.
C8_RankWithinTwoToFive ==
    \A i \in Nodes : objs[i].bodyRank \in 2..5

-----------------------------------------------------------------------------
\* C9: a constructor call with a Minor as parent changes no existing object
\* (no orbitals, heads or bodies of anything), and when it returns the new
\* object is as its constructor initialised it: rank as assigned, parent the
\* Minor, in no collection.
C9_MinorParentAssignsNothing ==
    [][\A c \in Classes, p \in Nodes :
        \A r \in RanksOf(c) :
          (objs[p].cls = "Minor" /\ Construct(c, p, r)) =>
              /\ \A i \in Nodes : objs'[i] = objs[i]
              /\ ~raised' =>
                    /\ Len(objs') = Len(objs) + 1
                    /\ objs'[Len(objs')] = NewObj(c, p, r)
      ]_vars

\* A body constructed under a Minor that lies inside a System: it has the
\* default rank of its class, not that of the Minor plus one, and the System
\* does not list it.
C9_Witness ==
    \E b \in ChildrenOfClass("Minor") :
        /\ objs[b].cls = "Planet"
        /\ objs[b].bodyRank = PlanetRank
        /\ objs[b].bodyRank # objs[objs[b].parent].bodyRank + 1
        /\ system(objs, b) # None
        /\ b \notin Listed(system(objs, b))

-----------------------------------------------------------------------------
\* C10: no object occurs twice in a collection; an object in some orbitals is
\* in those of its parent only; an object listed in a System is listed in the
\* nearest System above it only, and in one of its two lists.
C10_NoDuplicateMembership ==
    /\ \A c \in Nodes :
           /\ NoDuplicates(objs[c].orbitals)
           /\ NoDuplicates(objs[c].heads)
           /\ NoDuplicates(objs[c].bodies)
           /\ \A x \in Range(objs[c].orbitals) : objs[x].parent = c
    /\ \A s \in Systems :
           \A x \in Listed(s) :
               /\ s = NearestSystem(objs[x].parent)
               /\ ~(x \in Heads(s) /\ x \in Bodies(s))

\* An object with the dual membership, under nested Systems.
C10_Witness ==
    \E x \in Nodes, s \in Systems :
        /\ objs[x].parent # None
        /\ objs[x].parent # s
        /\ x \in Range(objs[objs[x].parent].orbitals)
        /\ x \in Listed(s)
        /\ RootSystem(x) # s

====
